---- MODULE Spec2Model ----
(***************************************************************************)
(* Model of app.py: the red-pocket trivia game.                            *)
(*                                                                         *)
(* Money is counted in integer cents: every amount the program stores has  *)
(* gone through round(x, 2).  A Python str is a sequence of one-character  *)
(* strings, so that rsplit, strip and upper are computed, not assumed.     *)
(***************************************************************************)
EXTENDS Integers, Sequences, FiniteSets, TLC

VARIABLES state, pc, trigger, user_input, locals, calls, alloc,
          ui, queue, clicks, failed

vars == <<state, pc, trigger, user_input, locals, calls, alloc,
          ui, queue, clicks, failed>>

(***************************************************************************)
(* Bounds of the model.                                                    *)
(***************************************************************************)
\* number of game_logic invocations explored in one session
MaxCalls == 4
\* number of sample points taken from the interval of one random.uniform draw
DrawPoints == 2
\* largest pot, in cents, handed to scramble_money on its own
MaxAllocPot == 120
\* number of button clicks explored when clicks are taken from the page
MaxClicks == 3

(***************************************************************************)
(* Program constants.                                                      *)
(***************************************************************************)
\* random.uniform(8.88, 38.88), in cents
PotMin == 888
PotMax == 3888
\* lower end of the share draw, random.uniform(0.5, ...), in cents
ShareFloor == 50

family_members_list == <<"Xiao Ming", "Auntie May", "Uncle Chen">>
Letters == {<<"A">>, <<"B">>, <<"C">>, <<"D">>}
Delimiter == <<"|", "|", "|">>
Fallback == <<"A">>

None == [none |-> TRUE]
NoLocals == [none |-> TRUE]

Range(s) == {s[i] : i \in 1..Len(s)}

(***************************************************************************)
(* str methods.                                                            *)
(***************************************************************************)
Whitespace == {" ", "\n", "\t", "\r"}
LowerCase == <<"a","b","c","d","e","f","g","h","i","j","k","l","m",
               "n","o","p","q","r","s","t","u","v","w","x","y","z">>
UpperCase == <<"A","B","C","D","E","F","G","H","I","J","K","L","M",
               "N","O","P","Q","R","S","T","U","V","W","X","Y","Z">>

UpperChar(c) ==
    IF \E i \in 1..Len(LowerCase) : LowerCase[i] = c
    THEN UpperCase[CHOOSE i \in 1..Len(LowerCase) : LowerCase[i] = c]
    ELSE c

\* str.upper()
upper(s) == [i \in 1..Len(s) |-> UpperChar(s[i])]

\* str.strip()
strip(s) ==
    LET keep == {i \in 1..Len(s) : s[i] \notin Whitespace}
    IN  IF keep = {} THEN <<>>
        ELSE LET first == CHOOSE i \in keep : \A j \in keep : i <= j
                 last  == CHOOSE i \in keep : \A j \in keep : j <= i
             IN  SubSeq(s, first, last)

\* str.rfind(sep): 1-based position of the rightmost occurrence, 0 if none
rfind(s, sep) ==
    LET hits == {i \in 1..(Len(s) - Len(sep) + 1) :
                    SubSeq(s, i, i + Len(sep) - 1) = sep}
    IN  IF hits = {} THEN 0
        ELSE CHOOSE i \in hits : \A j \in hits : j <= i

\* str.rsplit(sep, 1)
rsplit1(s, sep) ==
    LET i == rfind(s, sep)
    IN  IF i = 0 THEN <<s>>
        ELSE <<SubSeq(s, 1, i - 1), SubSeq(s, i + Len(sep), Len(s))>>

\* the secret key taken without the test for a missing delimiter
ParseSecretNoFallback(raw_output) ==
    LET parts == rsplit1(raw_output, Delimiter)
    IN  strip(parts[Len(parts)])

\* lines 129-130: the secret key taken from the generator's raw output
ParseSecret(raw_output) ==
    LET parts == rsplit1(raw_output, Delimiter)
    IN  IF Len(parts) > 1 THEN strip(parts[Len(parts)]) ELSE Fallback

(***************************************************************************)
(* scramble_money                                                          *)
(***************************************************************************)
\* sample points of the integer interval lo..hi, both ends included
Grid(lo, hi) ==
    {lo + ((hi - lo) * j) \div (DrawPoints - 1) : j \in 0..(DrawPoints - 1)}

\* the draw with the factor 2.3 in place of 1.3
UniformShareWide(remaining, k) ==
    LET up   == (46 * remaining + 10 * k) \div (20 * k)
        down == 0 - ((10 * k - 46 * remaining) \div (20 * k))
    IN  IF 23 * remaining >= 10 * k * ShareFloor
        THEN Grid(ShareFloor, up)
        ELSE Grid(down, ShareFloor)

\* the cents  round(random.uniform(0.5, (remaining / k) * 1.3), 2)  can be:
\* uniform(a, b) lies between a and b whichever is larger, and rounding
\* moves a value by at most half a cent (a tie may go either way in binary).
UniformShare(remaining, k) ==
    LET up   == (26 * remaining + 10 * k) \div (20 * k)
        down == 0 - ((10 * k - 26 * remaining) \div (20 * k))
    IN  IF 13 * remaining >= 10 * k * ShareFloor
        THEN Grid(ShareFloor, up)
        ELSE Grid(down, ShareFloor)

\* the loop with "remaining -= share" left out
RECURSIVE DrawSharesNoSubtract(_, _, _)
DrawSharesNoSubtract(remaining, n, i) ==
    IF i >= n - 1 THEN {<<remaining>>}
    ELSE UNION {{<<share>> \o rest : rest \in DrawSharesNoSubtract(remaining, n, i + 1)} :
                  share \in UniformShare(remaining, n - i)}

\* the loop running over every winner, the last one included, with no
\* remainder share
RECURSIVE DrawSharesAllDrawn(_, _, _)
DrawSharesAllDrawn(remaining, n, i) ==
    IF i >= n THEN {<<>>}
    ELSE UNION {{<<share>> \o rest : rest \in DrawSharesAllDrawn(remaining - share, n, i + 1)} :
                  share \in UniformShare(remaining, n - i)}

\* lines 76-82: the share lists the loop can build from iteration i on
RECURSIVE DrawShares(_, _, _)
DrawShares(remaining, n, i) ==
    IF i >= n - 1 THEN {<<remaining>>}
    ELSE UNION {{<<share>> \o rest : rest \in DrawShares(remaining - share, n, i + 1)} :
                  share \in UniformShare(remaining, n - i)}

\* no shuffle: the shares stay in the order drawn
ShufflesNone(n) == {[i \in 1..n |-> i]}

\* random.shuffle: every permutation of the positions
Shuffles(n) == {p \in [1..n -> 1..n] : \A i, j \in 1..n : p[i] = p[j] => i = j}

IndexOf(seq, w) == CHOOSE i \in 1..Len(seq) : seq[i] = w

\* lines 83-84: dict(zip(winners, shares)) after shares was shuffled by p
Zip(winners, shares, p) ==
    [w \in Range(winners) |-> shares[p[IndexOf(winners, w)]]]

\* lines 74-84: the runs of scramble_money(total, winners), each with the
\* share list as drawn (before the shuffle) and the mapping returned
ScrambleRuns(total, winners) ==
    IF winners = <<>> THEN {[shares |-> <<>>, payouts |-> <<>>]}
    ELSE {[shares |-> shares, payouts |-> Zip(winners, shares, p)] :
            shares \in DrawShares(total, Len(winners), 0),
            p \in Shuffles(Len(winners))}

\* lines 74-84: the set of mappings scramble_money(total, winners) can return
scramble_money(total, winners) ==
    {run.payouts : run \in ScrambleRuns(total, winners)}

\* dict.get(key, 0)
Get(d, key) == IF key \in DOMAIN d THEN d[key] ELSE 0

RECURSIVE SumOver(_, _)
SumOver(d, keys) ==
    IF keys = {} THEN 0
    ELSE LET k == CHOOSE k \in keys : TRUE
         IN  d[k] + SumOver(d, keys \ {k})

\* sum(payouts.values())
SumValues(d) == SumOver(d, DOMAIN d)

(***************************************************************************)
(* Inputs.                                                                 *)
(***************************************************************************)
\* texts generate_lunar_challenge may return
RawOutputs ==
    { <<"Q", "?", " ", "|", "|", "|", " ", "C">>,           \* "Q? ||| C"
      <<"Q", "?">>,                                         \* no delimiter
      <<"Q", "|", "|", " ", "B">>,                          \* "Q|| B", none either
      <<"Q", "|", "|", "|", "A", "|", "|", "|", "C", "\n">>, \* two delimiters
      <<"Q", "?", " ", "|", "|", "|", " ">>,                \* nothing after it
      <<"Q", "?", "|", "|", "|", "C", ".">>,                \* "Q?|||C."
      <<"Q", "?", "|", "|", "|", " ", "d">> }               \* lower-case letter

\* texts the answer box may hold when Submit is clicked
UserInputs ==
    { <<>>, <<"c">>, <<" ", "C", "\n">>, <<"b">>, <<"x">> }

\* pots round(random.uniform(8.88, 38.88), 2) the model samples
Pots == {PotMin, 1234, PotMax}

\* winner lists game_logic can build: "You" first, then the family in order
WinnerLists ==
    {(IF you THEN <<"You">> ELSE <<>>) \o SelectSeq(family_members_list, LAMBDA m : m \in fam) :
        you \in BOOLEAN, fam \in SUBSET Range(family_members_list)}

\* pots handed to scramble_money on its own: small ones, the game's, and 20.00
AllocPots == (1..MaxAllocPot) \cup Pots \cup {2000}

NoAlloc == [none |-> TRUE]

(***************************************************************************)
(* game_logic: a generator with two yields per branch.                     *)
(***************************************************************************)
\* lines 118-119
Normalize(s) ==
    IF s = None
    THEN [status |-> "IDLE", balance |-> 0, secret_key |-> <<>>, chat_history |-> <<>>]
    ELSE s

\* lines 182-184: the answer box and the two buttons as the page shows them
InitUI == [start_btn |-> TRUE, submit_btn |-> FALSE, ans_msg |-> FALSE, ans_value |-> <<>>]

\* lines 194-195: the second listener of each button swaps the two buttons
\* as soon as the button is clicked
Lambda(trig, u) ==
    IF trig = "start"
    THEN [u EXCEPT !.submit_btn = TRUE, !.start_btn = FALSE]
    ELSE [u EXCEPT !.submit_btn = FALSE, !.start_btn = TRUE]

\* lines 126 and 140: the first yield hides the answer box and the start button
PendingView(u) == [u EXCEPT !.ans_msg = FALSE, !.start_btn = FALSE]

\* line 135: the second yield of the IDLE branch shows the emptied answer box
QuestionView(u) == [u EXCEPT !.ans_msg = TRUE, !.ans_value = <<>>, !.start_btn = FALSE]

\* line 164: the second yield of the WAITING branch shows the start button
ResultView(u) == [u EXCEPT !.ans_msg = FALSE, !.start_btn = TRUE]

\* lines 117-126 and 137-140: from the call to the first yield.  Both buttons
\* are bound to the one function game_logic and its calls are queued one after
\* the other, so a call starts only when no other is in flight (pc = "ready").
\* The region only goes into the prompts and is left out.  u is the page as
\* the call finds it.
GameLogicBegin(trig, inp, u) ==
    LET st == Normalize(state)
    IN  /\ pc = "ready"
        /\ calls < MaxCalls
        /\ calls' = calls + 1
        /\ trigger' = trig
        /\ user_input' = inp
        /\ locals' = NoLocals
        /\ IF st.status = "IDLE"
           THEN /\ state' = [st EXCEPT !.chat_history = Append(@, "waiting")]
                /\ pc' = "q_pending"
                /\ ui' = PendingView(u)
           ELSE IF st.status = "WAITING"
           THEN /\ state' = st
                /\ pc' = "a_pending"
                /\ ui' = PendingView(u)
           ELSE /\ state' = state
                /\ pc' = "ready"
                /\ ui' = u
        /\ UNCHANGED <<alloc, failed>>

\* line 192: start_btn.click passes gr.State("") as user_input
StartClick ==
    /\ GameLogicBegin("start", <<>>, Lambda("start", ui))
    /\ UNCHANGED <<queue, clicks>>

\* line 193: submit_btn.click passes the answer box
SubmitClick ==
    /\ \E inp \in UserInputs :
         GameLogicBegin("submit", inp, Lambda("submit", [ui EXCEPT !.ans_value = inp]))
    /\ UNCHANGED <<queue, clicks>>

\* the question branch starting from a fresh state dict
AfterQuestionResetsBalance(st, raw_output) ==
    [st EXCEPT !.secret_key = ParseSecret(raw_output), !.status = "WAITING",
               !.balance = 0]

\* lines 128-131: the session state after the question has been generated
AfterQuestion(st, raw_output) ==
    [st EXCEPT !.secret_key = ParseSecret(raw_output), !.status = "WAITING"]

\* lines 128-135: from the first yield of the IDLE branch to its second
ResumeQuestion ==
    /\ pc = "q_pending"
    /\ \E raw_output \in RawOutputs :
         /\ state' = AfterQuestion(state, raw_output)
         /\ locals' = [raw_output |-> raw_output]
    /\ pc' = "q_done"
    /\ ui' = QuestionView(ui)
    /\ UNCHANGED <<trigger, user_input, calls, alloc, queue, clicks, failed>>

\* the comparison without upper()
UserCorrectCaseSensitive(inp, secret_key) == strip(inp) = secret_key

\* line 142
UserCorrect(inp, secret_key) == upper(strip(inp)) = secret_key

\* the user counted as a winner whatever the answer
WinnersAlwaysYou(user_correct, guesses, secret_key) ==
    <<"You">> \o SelectSeq(family_members_list, LAMBDA m : guesses[m] = secret_key)

\* lines 143-150: "You" if correct, then each family member who guessed right
Winners(user_correct, guesses, secret_key) ==
    (IF user_correct THEN <<"You">> ELSE <<>>)
      \o SelectSeq(family_members_list, LAMBDA m : guesses[m] = secret_key)

\* the family records with line 161 left out: every gain stays 0
FamilyDataGainNotFilled(guesses, secret_key, payouts) ==
    [m \in Range(family_members_list) |->
        [guess |-> guesses[m],
         correct |-> guesses[m] = secret_key,
         gain |-> 0]]

\* lines 146-151 and 161
FamilyData(guesses, secret_key, payouts) ==
    [m \in Range(family_members_list) |->
        [guess |-> guesses[m],
         correct |-> guesses[m] = secret_key,
         gain |-> Get(payouts, m)]]

\* the payout assigned to the balance instead of added
AfterEvaluationAssigns(st, user_gain) ==
    [st EXCEPT !.balance = user_gain,
               !.status = "IDLE",
               !.chat_history = Append(@, "result")]

\* the payout branch leaving the status as it was
AfterEvaluationKeepsStatus(st, user_gain) ==
    [st EXCEPT !.balance = @ + user_gain,
               !.chat_history = Append(@, "result")]

\* lines 156-160: the session state after the payout
AfterEvaluation(st, user_gain) ==
    [st EXCEPT !.balance = @ + user_gain,
               !.status = "IDLE",
               !.chat_history = Append(@, "result")]

\* line 163: the arguments handed to format_result_card
ResultCard(user_correct, user_gain, family_data, st) ==
    [user_correct |-> user_correct,
     user_gain |-> user_gain,
     family_results |-> family_data,
     secret_key |-> st.secret_key,
     total_wealth |-> st.balance]

\* lines 142-164: from the first yield of the WAITING branch to its second
ResumeAnswer ==
    /\ pc = "a_pending"
    /\ \E guesses \in [Range(family_members_list) -> Letters], pot \in Pots :
         LET user_correct == UserCorrect(user_input, state.secret_key)
             winners == Winners(user_correct, guesses, state.secret_key)
         IN  \E run \in ScrambleRuns(pot, winners) :
               LET payouts == run.payouts
                   user_gain == Get(payouts, "You")
                   family_data == FamilyData(guesses, state.secret_key, payouts)
               IN  /\ state' = AfterEvaluation(state, user_gain)
                   /\ locals' = [user_correct |-> user_correct,
                                 winners |-> winners,
                                 pot |-> pot,
                                 shares |-> run.shares,
                                 payouts |-> payouts,
                                 user_gain |-> user_gain,
                                 family_data |-> family_data,
                                 card |-> ResultCard(user_correct, user_gain,
                                                     family_data, state')]
    /\ pc' = "a_done"
    /\ ui' = ResultView(ui)
    /\ UNCHANGED <<trigger, user_input, calls, alloc, queue, clicks, failed>>

\* the generator is resumed after its last yield and ends
Finish ==
    /\ pc \in {"q_done", "a_done"}
    /\ pc' = "ready"
    /\ trigger' = "none"
    /\ user_input' = <<>>
    /\ locals' = NoLocals
    /\ UNCHANGED <<state, calls, alloc, ui, queue, clicks, failed>>

Init ==
    /\ state = None
    /\ pc = "ready"
    /\ trigger = "none"
    /\ user_input = <<>>
    /\ locals = NoLocals
    /\ calls = 0
    /\ alloc = NoAlloc
    /\ ui = InitUI
    /\ queue = <<>>
    /\ clicks = 0
    /\ failed = FALSE

Next ==
    \/ StartClick
    \/ SubmitClick
    \/ ResumeQuestion
    \/ ResumeAnswer
    \/ Finish

Spec == Init /\ [][Next]_vars

(***************************************************************************)
(* The same session when crew.kickoff() may raise.  game_logic catches     *)
(* nothing, so the exception ends the generator where it is raised; the    *)
(* state dict is changed in place, so what was assigned before stays.      *)
(***************************************************************************)
\* line 123: generate_family_reactions raises before the first yield of the
\* IDLE branch; the other listener of the button has swapped the buttons
ChatFailsAtStart ==
    /\ pc = "ready"
    /\ calls < MaxCalls
    /\ Normalize(state).status = "IDLE"
    /\ \E trig \in {"start", "submit"} : ui' = Lambda(trig, ui)
    /\ calls' = calls + 1
    /\ failed' = TRUE
    /\ UNCHANGED <<state, pc, trigger, user_input, locals, alloc, queue, clicks>>

\* line 128: generate_lunar_challenge raises after the first yield
QuestionFails ==
    /\ pc = "q_pending"
    /\ pc' = "ready"
    /\ trigger' = "none"
    /\ user_input' = <<>>
    /\ failed' = TRUE
    /\ UNCHANGED <<state, locals, calls, alloc, ui, queue, clicks>>

\* lines 142-159: generate_family_reactions raises after the balance and the
\* status have been assigned (lines 156-157) and before the last yield
ResultChatFails ==
    /\ pc = "a_pending"
    /\ \E guesses \in [Range(family_members_list) -> Letters], pot \in Pots :
         LET user_correct == UserCorrect(user_input, state.secret_key)
             winners == Winners(user_correct, guesses, state.secret_key)
         IN  \E run \in ScrambleRuns(pot, winners) :
               state' = [state EXCEPT !.balance = @ + Get(run.payouts, "You"),
                                      !.status = "IDLE"]
    /\ pc' = "ready"
    /\ trigger' = "none"
    /\ user_input' = <<>>
    /\ locals' = NoLocals
    /\ failed' = TRUE
    /\ UNCHANGED <<calls, alloc, ui, queue, clicks>>

NextFail ==
    \/ Next
    \/ ChatFailsAtStart
    \/ QuestionFails
    \/ ResultChatFails

SpecFail == Init /\ [][NextFail]_vars

-----------------------------------------------------------------------------
\* The page as a user drives it (lines 182-195).  Only a visible button can be
\* clicked, and it can be clicked while a call of game_logic is running.  A
\* click runs the button's lambda listener at once and hands the button's
\* game_logic listener to the event queue, which runs the calls of game_logic
\* one after the other; a listener that still has an event waiting or running
\* takes no second one.

\* the game_logic listener of the button still has an event waiting or running
ListenerBusy(trig) ==
    \/ \E i \in 1..Len(queue) : queue[i].trig = trig
    \/ pc # "ready" /\ trigger = trig

\* what a click leaves in the event queue
Enqueue(trig, inp) ==
    IF ListenerBusy(trig) THEN queue ELSE Append(queue, [trig |-> trig, inp |-> inp])

\* lines 192 and 194: a click on the visible start button
UIClickStart ==
    /\ ui.start_btn
    /\ clicks < MaxClicks
    /\ clicks' = clicks + 1
    /\ ui' = Lambda("start", ui)
    /\ queue' = Enqueue("start", <<>>)
    /\ UNCHANGED <<state, pc, trigger, user_input, locals, calls, alloc, failed>>

\* lines 193 and 195: a click on the visible submit button; the answer box
\* holds what the user typed if it is shown, and what it held before if not
UIClickSubmit ==
    /\ ui.submit_btn
    /\ clicks < MaxClicks
    /\ clicks' = clicks + 1
    /\ \E inp \in (IF ui.ans_msg THEN UserInputs ELSE {ui.ans_value}) :
         /\ ui' = Lambda("submit", [ui EXCEPT !.ans_value = inp])
         /\ queue' = Enqueue("submit", inp)
    /\ UNCHANGED <<state, pc, trigger, user_input, locals, calls, alloc, failed>>

\* the event queue starts the next call of game_logic
UIBegin ==
    /\ queue # <<>>
    /\ GameLogicBegin(Head(queue).trig, Head(queue).inp, ui)
    /\ queue' = Tail(queue)
    /\ UNCHANGED clicks

NextUI ==
    \/ UIClickStart
    \/ UIClickSubmit
    \/ UIBegin
    \/ ResumeQuestion
    \/ ResumeAnswer
    \/ Finish

SpecUI == Init /\ [][NextUI]_vars


(***************************************************************************)
(* scramble_money on its own, for any pot and winner list.                 *)
(***************************************************************************)
InitAlloc ==
    /\ state = None
    /\ pc = "ready"
    /\ trigger = "none"
    /\ user_input = <<>>
    /\ locals = NoLocals
    /\ calls = 0
    /\ ui = InitUI
    /\ queue = <<>>
    /\ clicks = 0
    /\ failed = FALSE
    /\ \E total \in AllocPots, winners \in WinnerLists :
         alloc = [total |-> total, winners |-> winners, returned |-> FALSE,
                  shares |-> <<>>, payouts |-> <<>>]

AllocCall ==
    /\ ~alloc.returned
    /\ \E run \in ScrambleRuns(alloc.total, alloc.winners) :
         alloc' = [alloc EXCEPT !.returned = TRUE, !.shares = run.shares,
                                !.payouts = run.payouts]
    /\ UNCHANGED <<state, pc, trigger, user_input, locals, calls,
                   ui, queue, clicks, failed>>

NextAlloc == AllocCall

SpecAlloc == InitAlloc /\ [][NextAlloc]_vars

(***************************************************************************)
(* The session state as game_logic reads it.                               *)
(***************************************************************************)
Status == Normalize(state).status
Balance == Normalize(state).balance
SecretKey == Normalize(state).secret_key

(***************************************************************************)
(* Properties of scramble_money (SpecAlloc).                               *)
(***************************************************************************)
\* C1: for every pot and every list of one to four winners, whatever the
\* draws, the payouts scramble_money returns add up to the pot.
C1_SumEqualsPot ==
    (alloc.returned /\ alloc.winners # <<>>)
        => /\ DOMAIN alloc.payouts = Range(alloc.winners)
           /\ SumValues(alloc.payouts) = alloc.total

\* four winners have split a game pot into four different shares
C1_Witness ==
    /\ alloc.returned
    /\ Len(alloc.winners) = 4
    /\ alloc.total = PotMax
    /\ Cardinality({alloc.payouts[w] : w \in DOMAIN alloc.payouts}) = 4

\* C2: for every pot above zero and every non-empty winner list, every
\* payout scramble_money returns is at least zero.
C2_PayoutsNonNegative ==
    alloc.returned => \A w \in DOMAIN alloc.payouts : alloc.payouts[w] >= 0

(***************************************************************************)
(* Properties of the session (Spec).                                       *)
(***************************************************************************)
\* C3: the status starts IDLE, is always IDLE or WAITING, an invocation
\* begun in IDLE ends in WAITING and one begun in WAITING ends in IDLE, and
\* a session that is not in flight can always take a further trigger.
C3_StatusAlternates ==
    /\ Status = "IDLE"
    /\ [](Status \in {"IDLE", "WAITING"})
    /\ [](pc = "q_pending" => Status = "IDLE")
    /\ [](pc = "q_done" => Status = "WAITING")
    /\ [](pc = "a_pending" => Status = "WAITING")
    /\ [](pc = "a_done" => Status = "IDLE")
    /\ [][pc = "ready" => pc' \in {"q_pending", "a_pending"}]_vars
    /\ [][pc' = "ready" => Status' = Status]_vars
    /\ []((pc = "ready" /\ calls < MaxCalls) => ENABLED (StartClick \/ SubmitClick))
    /\ [](pc # "ready" => ENABLED (ResumeQuestion \/ ResumeAnswer \/ Finish))

\* a question has been issued and answered: the status is back to IDLE
C3_Witness ==
    /\ pc = "ready"
    /\ calls = 2
    /\ Status = "IDLE"
    /\ Len(Normalize(state).chat_history) = 2

\* C4: an answer evaluation adds the user's own payout to the balance, which
\* is 0 when the answer is wrong; from balance 0 a sole winner ends with the pot.
C4_BalanceAddsUserPayout ==
    [][(pc = "a_pending" /\ pc' = "a_done") =>
         /\ Balance' = Balance + Get(locals'.payouts, "You")
         /\ (~locals'.user_correct => Balance' = Balance)
         /\ ((Balance = 0 /\ locals'.winners = <<"You">>) => Balance' = locals'.pot)]_vars

\* from balance 0 the user alone has won a pot of 12.34
C4_Witness ==
    /\ pc = "a_done"
    /\ calls = 2
    /\ locals.winners = <<"You">>
    /\ locals.pot = 1234
    /\ Balance = 1234

\* C5: the balance is never negative and never decreases; only the answer
\* evaluation changes it, the question issuance leaves it alone.
C5_BalanceMonotone ==
    /\ [](Balance >= 0)
    /\ [][Balance' >= Balance]_vars
    /\ [][Balance' # Balance => (pc = "a_pending" /\ pc' = "a_done")]_vars

\* a question has been issued on a session that already holds winnings
C5_Witness ==
    /\ pc = "q_done"
    /\ Status = "WAITING"
    /\ Balance > 0


\* C6: a submit trigger arriving while the status is IDLE is a no-op: the
\* secret key, the balance and the status are afterwards what they were.
C6_SubmitInIdleIsNoOp ==
    [][(trigger = "submit" /\ pc = "q_pending") =>
         /\ SecretKey' = SecretKey
         /\ Balance' = Balance
         /\ Status' = Status]_vars

\* C7: a start trigger arriving while the status is WAITING resets to a new
\* question: the status is WAITING afterwards, no answer is evaluated, no pot
\* is sampled and the balance is unchanged.
C7_StartInWaitingResets ==
    [][(trigger = "start" /\ pc = "a_pending") =>
         /\ Status' = "WAITING"
         /\ locals' = NoLocals
         /\ Balance' = Balance]_vars

\* C8: whenever the status is IDLE the stored secret key is empty.
C8_SecretEmptyWhenIdle ==
    Status = "IDLE" => SecretKey = <<>>

\* C9: whenever the status is WAITING the stored secret key is one of the
\* letters A, B, C, D, whatever text the question generator returned.
C9_SecretIsLetterWhenWaiting ==
    Status = "WAITING" => SecretKey \in Letters

\* the spellings of a letter the answer box may hold: upper case, lower case,
\* with blanks or a newline around it
LowerOf == [u \in {"A", "B", "C", "D"} |->
              IF u = "A" THEN "a" ELSE IF u = "B" THEN "b"
              ELSE IF u = "C" THEN "c" ELSE "d"]
Spellings(u) ==
    { <<u>>, <<LowerOf[u]>>, <<" ", u>>, <<u, " ">>, <<" ", LowerOf[u]>>,
      <<LowerOf[u], " ">>, <<" ", u, "\n">>, <<" ", LowerOf[u], "\n">> }

\* C10: with a letter as secret key, every spelling of that letter is judged
\* correct and puts the user among the winners, every spelling of another
\* letter is judged wrong; "Q? ||| C" stores the secret key C.
C10_AnswerIgnoresCaseAndBlanks ==
    /\ (pc = "a_done" /\ SecretKey \in Letters) =>
          \A u \in {"A", "B", "C", "D"} :
             user_input \in Spellings(u) =>
                /\ locals.user_correct = (<<u>> = SecretKey)
                /\ ("You" \in Range(locals.winners)) = (<<u>> = SecretKey)
    /\ (pc = "q_done" /\ locals.raw_output = <<"Q", "?", " ", "|", "|", "|", " ", "C">>)
          => SecretKey = <<"C">>

\* the question "Q? ||| C" was answered with "c" and the user has won
C10_Witness ==
    /\ pc = "a_done"
    /\ SecretKey = <<"C">>
    /\ user_input = <<"c">>
    /\ locals.user_correct
    /\ "You" \in Range(locals.winners)
    /\ Balance > 0

\* C11: an answer that, trimmed and upper-cased, is not one of A, B, C, D
\* (the empty answer included) is judged wrong: the user is no winner, gains
\* nothing and the balance stays, whatever the question generator returned.
C11_MalformedAnswerIsWrong ==
    [][(pc = "a_pending" /\ pc' = "a_done" /\ trigger = "submit"
          /\ upper(strip(user_input)) \notin Letters) =>
         /\ ~locals'.user_correct
         /\ "You" \notin Range(locals'.winners)
         /\ locals'.user_gain = 0
         /\ Balance' = Balance]_vars

\* the text has no "|||" in it
NoDelimiter(raw) ==
    \A i \in 1..Len(raw) :
       ~(i + 2 <= Len(raw) /\ raw[i] = "|" /\ raw[i + 1] = "|" /\ raw[i + 2] = "|")

\* C12: when the generator's text holds no "|||", the question is issued all
\* the same: the secret key is the letter A, every time, and the status
\* becomes WAITING.
C12_FallbackLetter ==
    (pc = "q_done" /\ NoDelimiter(locals.raw_output))
        => (SecretKey = <<"A">> /\ Status = "WAITING")

\* the text "Q|| B", which has two bars only, has given the secret key A
C12_Witness ==
    /\ pc = "q_done"
    /\ locals.raw_output = <<"Q", "|", "|", " ", "B">>
    /\ SecretKey = <<"A">>
    /\ Status = "WAITING"

\* C13: when a content generator fails, the transition is completed all the
\* same: an invocation that has begun reaches its final display update, and
\* the session is never left with a half-applied update (every invocation
\* has appended its chat text and moved the status on).
C13_ProceedsOnCollaboratorFailure ==
    /\ [][(pc \in {"q_pending", "a_pending"}) => (pc' \in {"q_done", "a_done"})]_vars
    /\ [](pc = "ready" => Len(Normalize(state).chat_history) = calls)
    /\ [](pc = "ready" => Status = (IF calls % 2 = 0 THEN "IDLE" ELSE "WAITING"))

\* C15: with exactly one winner w, scramble_money returns {w: pot}: the whole
\* pot and nothing drawn.
C15_SingleWinnerTakesAll ==
    (alloc.returned /\ Len(alloc.winners) = 1)
        => /\ alloc.payouts = [w \in {alloc.winners[1]} |-> alloc.total]
           /\ alloc.shares = <<alloc.total>>

\* the user alone has been handed a pot of 12.34
C15_Witness ==
    /\ alloc.returned
    /\ alloc.winners = <<"You">>
    /\ alloc.total = 1234
    /\ alloc.payouts["You"] = 1234

\* the one-to-one maps of 1..n onto itself
Bijections(n) == {q \in [1..n -> 1..n] : \A j \in 1..n : \E i \in 1..n : q[i] = j}

\* C18: scramble_money gives one payout to each winner and to nobody else;
\* the payouts are the shares as drawn (the remainder last) in some order,
\* and every order is a possible outcome.  (The last part is a statement
\* about the share list, so it is evaluated once per list: in the state
\* where the payouts came out in the order drawn.)
C18_ShuffledAssignment ==
    (alloc.returned /\ alloc.winners # <<>>) =>
        LET n == Len(alloc.winners)
            inOrder == \A i \in 1..n : alloc.payouts[alloc.winners[i]] = alloc.shares[i]
            outcomes == scramble_money(alloc.total, alloc.winners)
        IN  /\ DOMAIN alloc.payouts = Range(alloc.winners)
            /\ Len(alloc.shares) = n
            /\ \E q \in Bijections(n) :
                  \A i \in 1..n : alloc.payouts[alloc.winners[i]] = alloc.shares[q[i]]
            /\ inOrder =>
                  \A q \in Bijections(n) :
                     [w \in Range(alloc.winners) |->
                         alloc.shares[q[IndexOf(alloc.winners, w)]]] \in outcomes

\* of three winners of 20.00 the first listed has got the remainder share,
\* which differs from the two drawn shares
C18_Witness ==
    /\ alloc.returned
    /\ alloc.total = 2000
    /\ alloc.winners = <<"You", "Xiao Ming", "Uncle Chen">>
    /\ alloc.payouts["You"] = alloc.shares[3]
    /\ alloc.shares[3] # alloc.shares[1]
    /\ alloc.shares[3] # alloc.shares[2]
    /\ alloc.payouts["Uncle Chen"] # alloc.shares[3]

\* C16: when neither the user nor any family member has guessed the secret
\* key, the winner list is empty, scramble_money returns the empty mapping,
\* the evaluation completes with every gain 0 and the balance as it was.
C16_NoWinners ==
    [][(pc = "a_pending" /\ pc' = "a_done"
          /\ upper(strip(user_input)) # SecretKey
          /\ \A m \in Range(family_members_list) :
                locals'.family_data[m].guess # SecretKey) =>
         /\ locals'.winners = <<>>
         /\ locals'.payouts = <<>>
         /\ locals'.user_gain = 0
         /\ \A m \in Range(family_members_list) : locals'.family_data[m].gain = 0
         /\ Balance' = Balance
         /\ Status' = "IDLE"]_vars

\* a round nobody won, on a session that holds winnings from the round before
C16_Witness ==
    /\ pc = "a_done"
    /\ SecretKey \in Letters
    /\ locals.winners = <<>>
    /\ locals.payouts = <<>>
    /\ Balance > 0

\* C17: the result record agrees with the round: the winners are the
\* participants whose guess is the secret key, user_correct says whether
\* "You" is one, each correct flag says whether the guess is the secret key,
\* a gain is the allocator's payout for a winner and 0 for anyone else, and
\* the total is the balance after the update.
C17_ResultRecordConsistent ==
    pc = "a_done" =>
        LET card == locals.card
            won == Range(locals.winners)
            family == Range(family_members_list)
        IN  /\ won = {w \in {"You"} : upper(strip(user_input)) = SecretKey}
                       \cup {m \in family : card.family_results[m].guess = SecretKey}
            /\ card.user_correct = ("You" \in won)
            /\ \A m \in family :
                  /\ card.family_results[m].correct
                        = (card.family_results[m].guess = SecretKey)
                  /\ card.family_results[m].gain
                        = (IF m \in won THEN locals.payouts[m] ELSE 0)
                  /\ (card.family_results[m].gain > 0 => m \in won)
            /\ card.user_gain = (IF "You" \in won THEN locals.payouts["You"] ELSE 0)
            /\ (card.user_gain > 0 => "You" \in won)
            /\ DOMAIN locals.payouts = won
            /\ card.secret_key = SecretKey
            /\ card.total_wealth = Balance

\* the user and Xiao Ming have won, Uncle Chen has not, and the total shown
\* holds more than this round's gain
C17_Witness ==
    /\ pc = "a_done"
    /\ locals.card.user_correct
    /\ locals.card.user_gain > 0
    /\ locals.card.family_results["Xiao Ming"].gain > 0
    /\ ~locals.card.family_results["Uncle Chen"].correct
    /\ locals.card.family_results["Uncle Chen"].gain = 0
    /\ locals.card.total_wealth > locals.card.user_gain

RECURSIVE SumFirst(_, _)
SumFirst(seq, k) == IF k = 0 THEN 0 ELSE seq[k] + SumFirst(seq, k - 1)

\* C19: in the game (pot of 8.88 to 38.88, at most four winners) every
\* winner gets at least 0.50, no drawn share is more than what is left of the
\* pot when it is drawn, and a user who answered correctly ends the round
\* with a larger balance.
C19_GameSharesBounded ==
    /\ [](pc = "a_done" =>
            /\ locals.pot \in PotMin..PotMax
            /\ Len(locals.winners) <= 4
            /\ \A w \in DOMAIN locals.payouts : locals.payouts[w] >= 50
            /\ \A i \in 1..(Len(locals.shares) - 1) :
                  locals.shares[i] <= locals.pot - SumFirst(locals.shares, i - 1))
    /\ [][(pc = "a_pending" /\ pc' = "a_done" /\ locals'.user_correct)
            => Balance' > Balance]_vars

\* four winners have split the smallest pot, one of them getting exactly 0.50
C19_Witness ==
    /\ pc = "a_done"
    /\ locals.pot = PotMin
    /\ Len(locals.winners) = 4
    /\ locals.user_correct
    /\ \E w \in DOMAIN locals.payouts : locals.payouts[w] = 50

\* C20: whenever no call of game_logic is waiting or running and no
\* collaborator has failed, the start button is shown and the submit button
\* hidden if the status is IDLE (or the state not yet initialised), and the
\* submit button is shown and the start button hidden if it is WAITING.
C20_ButtonsMatchStatus ==
    (pc = "ready" /\ queue = <<>> /\ ~failed) =>
        /\ (Status = "IDLE" => ui.start_btn /\ ~ui.submit_btn)
        /\ (Status = "WAITING" => ui.submit_btn /\ ~ui.start_btn)

====
